---------------------------- MODULE Spec2Model ----------------------------
(***************************************************************************)
(* gskill: the candidate-evaluation loop (src/src/evaluator.py), the task  *)
(* source (src/src/tasks.py) and the pipeline (src/src/pipeline.py,        *)
(* src/main.py).                                                           *)
(*                                                                         *)
(* Spec       concurrent evaluate(candidate_skill, task) calls over one    *)
(*            temporary directory and one docker backend.                  *)
(* SpecSplit  split_tasks applied to task lists of every length.           *)
(* SpecTasks  load_tasks, the CLI commands `tasks` and `run`, and          *)
(*            pipeline.run over small datasets.                            *)
(***************************************************************************)
EXTENDS Integers, Sequences, FiniteSets, TLC

(***************************************************************************)
(* Bounds of the model.                                                    *)
(***************************************************************************)
\* evaluate calls made in one behaviour
MaxEvals == 2
\* names the temporary directory can hand out, per prefix
MaxNames == 3
\* longest FAIL_TO_PASS list of a task, counted beyond TestCap
ExtraTests == 1
\* longest task list split_tasks is applied to
MaxTasks == 100
\* records of the dataset
MaxRecords == 3
\* largest limit load_tasks and the `tasks` command are given, besides 300
MaxLimit == 2

(***************************************************************************)
(* Program constants.                                                      *)
(***************************************************************************)
\* test_ids = fail_to_pass[:10]
TestCap == 10

\* the workers of the search engine, each running one evaluate call at a
\* time: two, so that every step of a call interleaves with every step of
\* another and with the files earlier calls left behind
Calls == {1, 2}

(***************************************************************************)
(* Text.  A Python str is a sequence of characters.                        *)
(***************************************************************************)
Whitespace == {" ", "\n", "\t"}

RECURSIVE LStrip(_)
LStrip(s) ==
    IF s = <<>> THEN <<>>
    ELSE IF Head(s) \in Whitespace THEN LStrip(Tail(s)) ELSE s

RECURSIVE RStrip(_)
RStrip(s) ==
    IF s = <<>> THEN <<>>
    ELSE IF s[Len(s)] \in Whitespace THEN RStrip(SubSeq(s, 1, Len(s) - 1)) ELSE s

\* str.strip()
Strip(s) == RStrip(LStrip(s))

\* a faulty variant of the truth test of the fix artifact: `if patch:`
HasPatchUnstripped(patch) == patch # <<>>

\* `if patch.strip():`
HasPatch(patch) == Strip(patch) # <<>>

(***************************************************************************)
(* Values of the agent run.  A Python value is [kind, s]: None, or a str.  *)
(***************************************************************************)
PyNone == [kind |-> "None", s |-> <<>>]
PyStr(s) == [kind |-> "str", s |-> s]

\* x or ""
OrEmpty(x) == IF x.kind = "None" \/ x.s = <<>> THEN <<>> ELSE x.s

\* result.get("submission", "")
GetSubmission(result) == IF result.has THEN result.submission ELSE PyStr(<<>>)

DiffText == <<"d", "\n">>
BlankText == <<" ", "\n">>

\* what agent.run can return: no submission key, None, "", blank, a diff
AgentResults ==
    { [has |-> FALSE, submission |-> PyNone] }
    \cup { [has |-> TRUE, submission |-> v] :
             v \in {PyNone, PyStr(<<>>), PyStr(BlankText), PyStr(DiffText)} }

(***************************************************************************)
(* Tasks and candidates.                                                   *)
(***************************************************************************)
\* a task record: its id and the length of its FAIL_TO_PASS list
\* (has_f2p = FALSE: the key is absent)
Tasks ==
    { [instance_id |-> "t0", has_f2p |-> FALSE, n_f2p |-> 0] }
    \cup { [instance_id |-> "t1", has_f2p |-> TRUE, n_f2p |-> n] :
              n \in {0, TestCap + ExtraTests} }

NoTask == [instance_id |-> "", has_f2p |-> FALSE, n_f2p |-> 0]

\* candidates are opaque text; a file's content carries the call that wrote it
Skills == {"skillA"}
NoSkill == ""

\* instance.get("FAIL_TO_PASS", [])
FailToPass(instance) == IF instance.has_f2p THEN instance.n_f2p ELSE 0

\* a faulty variant of the guard of _run_tests: only an absent list counts as empty
NoChecksOnlyIfAbsent(instance) == ~instance.has_f2p

\* `if not fail_to_pass:`
NoChecks(instance) == FailToPass(instance) = 0

\* len(fail_to_pass[:10])
CappedTests(n) == IF n < TestCap THEN n ELSE TestCap

(***************************************************************************)
(* The temporary directory.  fs maps the names that exist to their         *)
(* content; a content carries the evaluate call that wrote it.             *)
(***************************************************************************)
SkillPrefix == "gskill_skill_"
TrajPrefix == "gskill_traj_"
PatchPrefix == "tmp"
NoPath == <<"", 0>>
NameIds == 1 .. MaxNames

VARIABLES
    docker,     \* the backend: "ok", "not_installed", "not_running"
    fs,         \* the temporary directory: name -> content
    started,    \* evaluate calls made so far
    pc,         \* where each call is
    cid,        \* the number of the evaluate call a slot is running
    frame,      \* the locals of each running call, under the source's names
    exc,        \* the exception evaluate raised to its caller
    arg_tasks,  \* split_tasks: the task list it is applied to
    split_out,  \* split_tasks: the tuple it returned, << >> before the call
    dataset,    \* the SWE-smith train split: records with a repo field
    ppc,        \* where the CLI command or the pipeline run is
    pframe,     \* the locals of pipeline.run, under the source's names
    outcome     \* what a call of load_tasks or a CLI command came to

evalVars == << docker, fs, started, pc, cid, frame, exc >>
splitVars == << arg_tasks, split_out >>
pipeVars == << dataset, ppc, pframe, outcome >>
tasksVars == << splitVars, pipeVars >>
vars == << evalVars, splitVars, pipeVars >>

\* a faulty variant of the temporary-name choice: one fixed name per prefix
FixedNames(prefix, files) == { <<prefix, 1>> }

\* tempfile.NamedTemporaryFile(delete=False): a name that does not exist yet.
\* Names are interchangeable, so the directory hands out the first free one.
FreshNames(prefix, files) ==
    { <<prefix, i>> : i \in { j \in NameIds :
          /\ <<prefix, j>> \notin DOMAIN files
          /\ \A k \in 1 .. j - 1 : <<prefix, k>> \in DOMAIN files } }

\* the file `name` created or overwritten with `content`
WriteFile(files, name, content) ==
    [n \in DOMAIN files \cup {name} |-> IF n = name THEN content ELSE files[n]]

\* os.unlink of an existing file
Unlink(files, name) == [n \in DOMAIN files \ {name} |-> files[n]]

NoContent == [owner |-> 0, data |-> <<>>]

NoHist ==
    [ agent_done |-> FALSE, verify |-> FALSE, image |-> FALSE,
      wrote_patch |-> FALSE, backend |-> FALSE, returncode |-> -1,
      applied |-> "none", tests_run |-> 0, missing |-> FALSE,
      mounted |-> NoContent ]

NoRt == [passed |-> FALSE, reason |-> "", raised |-> ""]



\* the locals of evaluate and of _run_tests; hist is what the call did so far
NoFrame ==
    [ task |-> NoTask, candidate_skill |-> NoSkill,
      skill_config_path |-> NoPath, traj_tmp |-> NoPath, config |-> NoContent,
      patch |-> <<>>, score |-> 0, error_msg |-> "", test_reason |-> "",
      patch_file |-> NoPath, rt |-> NoRt, hist |-> NoHist ]

DockerStates == {"ok", "not_installed", "not_running"}

\* no evaluate call has been made
EvalIdle ==
    /\ fs = [n \in {} |-> NoContent]
    /\ started = 0
    /\ pc = [c \in Calls |-> "idle"]
    /\ cid = [c \in Calls |-> 0]
    /\ frame = [c \in Calls |-> NoFrame]
    /\ exc = [c \in Calls |-> ""]

\* split_tasks has not been called
SplitIdle ==
    /\ arg_tasks = << >>
    /\ split_out = << >>

NoPFrame ==
    [ via |-> "", repo_url |-> <<>>, use_initial_skill |-> FALSE,
      repo_name |-> <<>>, tasks |-> <<>>, train |-> <<>>, val |-> <<>>,
      test |-> <<>>, seed_skill |-> "None", error |-> "", exit_code |-> -1,
      out_path |-> <<>> ]

NoOutcome ==
    [ call |-> "", repo |-> <<>>, n |-> 0, raised |-> "", value |-> <<>>,
      exit_code |-> -1, shown |-> <<>> ]

\* no command has been given
PipeIdle ==
    /\ ppc = "idle"
    /\ pframe = NoPFrame
    /\ outcome = NoOutcome

Init ==
    /\ docker \in DockerStates
    /\ EvalIdle
    /\ SplitIdle
    /\ dataset = << >>
    /\ PipeIdle

\* the exception leaves evaluate: nothing is returned, the locals are gone
Raise(c, e) ==
    /\ exc' = [exc EXCEPT ![c] = e]
    /\ pc' = [pc EXCEPT ![c] = "raised"]
    /\ frame' = [frame EXCEPT ![c] = NoFrame]

\* the search engine calls evaluate(candidate_skill, task) on its first free
\* worker; lines 135-138 set patch, score, error_msg and test_reason
Call(c) ==
    /\ pc[c] \in {"idle", "done", "raised"}
    /\ \A d \in 1 .. c - 1 : pc[d] \notin {"idle", "done", "raised"}
    /\ started < MaxEvals
    /\ started' = started + 1
    /\ cid' = [cid EXCEPT ![c] = started + 1]
    /\ \E t \in Tasks, s \in Skills :
         frame' = [frame EXCEPT ![c] =
                     [NoFrame EXCEPT !.task = t, !.candidate_skill = s]]
    /\ pc' = [pc EXCEPT ![c] = "write_skill"]
    /\ exc' = [exc EXCEPT ![c] = ""]
    /\ UNCHANGED << docker, fs >>
    /\ UNCHANGED tasksVars

\* _write_skill_config: the file is created, then yaml.dump writes it; either
\* step can fail with an OSError, which no handler of evaluate covers
WriteSkillConfig(c) ==
    /\ pc[c] = "write_skill"
    /\ \/ \E name \in FreshNames(SkillPrefix, fs) :
            /\ fs' = WriteFile(fs, name,
                        [owner |-> cid[c],
                         data |-> <<frame[c].candidate_skill>>])
            /\ \/ /\ frame' = [frame EXCEPT ![c].skill_config_path = name]
                  /\ pc' = [pc EXCEPT ![c] = "mk_traj"]
                  /\ UNCHANGED exc
               \/ Raise(c, "OSError")
       \/ /\ Raise(c, "OSError")
          /\ UNCHANGED fs
    /\ UNCHANGED << docker, started, cid >>
    /\ UNCHANGED tasksVars

\* the trajectory file: created empty and closed, outside the try
MkTraj(c) ==
    /\ pc[c] = "mk_traj"
    /\ \/ \E name \in FreshNames(TrajPrefix, fs) :
            /\ fs' = WriteFile(fs, name, [owner |-> cid[c], data |-> <<>>])
            /\ frame' = [frame EXCEPT ![c].traj_tmp = name]
            /\ pc' = [pc EXCEPT ![c] = "agent_config"]
            /\ UNCHANGED exc
       \/ /\ Raise(c, "OSError")
          /\ UNCHANGED fs
    /\ UNCHANGED << docker, started, cid >>
    /\ UNCHANGED tasksVars

\* `except Exception as e:` of the agent steps: the error is recorded, the
\* patch stays "", control goes to the finally clause
AgentError(c, e, gone) ==
    /\ frame' = [frame EXCEPT ![c].error_msg = e,
                              ![c].hist.agent_done = TRUE,
                              ![c].hist.missing = gone]
    /\ pc' = [pc EXCEPT ![c] = "finally"]

\* lines 141-152: the three configurations are read and merged; the second
\* is the call's skill file
AgentConfig(c) ==
    /\ pc[c] = "agent_config"
    /\ IF frame[c].skill_config_path \notin DOMAIN fs
          THEN AgentError(c, "FileNotFoundError", TRUE)
          ELSE \/ /\ frame' = [frame EXCEPT ![c].config =
                                               fs[frame[c].skill_config_path]]
                  /\ pc' = [pc EXCEPT ![c] = "agent_run"]
               \/ AgentError(c, "Exception", FALSE)
    /\ UNCHANGED << docker, fs, started, cid, exc >>
    /\ UNCHANGED tasksVars

\* lines 154-161: get_sb_environment, get_model, get_agent, then
\* agent.run(task["problem_statement"]): a step raises, or the run returns a
\* result, having saved its trajectory to output_path
AgentRun(c) ==
    /\ pc[c] = "agent_run"
    /\ \/ /\ AgentError(c, "Exception", FALSE)
          /\ UNCHANGED fs
       \/ \E result \in AgentResults :
            /\ frame' = [frame EXCEPT
                            ![c].patch = OrEmpty(GetSubmission(result)),
                            ![c].hist.agent_done = TRUE]
            /\ fs' = WriteFile(fs, frame[c].traj_tmp,
                        [owner |-> cid[c], data |-> <<"trajectory">>])
            /\ pc' = [pc EXCEPT ![c] = "finally"]
    /\ UNCHANGED << docker, started, cid, exc >>
    /\ UNCHANGED tasksVars

\* lines 166-184: finally os.unlink(skill_config_path), an OSError ignored;
\* then `if patch.strip():` _run_tests is called, else the reason is set
Finally(c) ==
    /\ pc[c] = "finally"
    /\ fs' = IF frame[c].skill_config_path \in DOMAIN fs
                THEN Unlink(fs, frame[c].skill_config_path) ELSE fs
    /\ IF HasPatch(frame[c].patch)
          THEN /\ pc' = [pc EXCEPT ![c] = "rt_begin"]
               /\ frame' = [frame EXCEPT ![c].hist.verify = TRUE]
          ELSE /\ pc' = [pc EXCEPT ![c] = "return"]
               /\ frame' = [frame EXCEPT ![c].test_reason = "no_patch_submitted"]
    /\ UNCHANGED << docker, started, cid, exc >>
    /\ UNCHANGED tasksVars

(***************************************************************************)
(* _run_tests(instance, patch), called from evaluate with no handler       *)
(* around it: what it raises, evaluate raises.                             *)
(***************************************************************************)

\* a faulty variant of the exit-status test: any exit status below 2 passes
PassedBelowTwo(returncode) == returncode < 2

\* passed = result.returncode == 0
Passed(returncode) == returncode = 0

\* "tests_passed" if passed else "tests_failed"
ReasonOf(passed) == IF passed THEN "tests_passed" ELSE "tests_failed"

\* lines 173-174 after _run_tests returned (passed, reason)
Returned(f, passed, reason) ==
    [f EXCEPT !.rt = [passed |-> passed, reason |-> reason, raised |-> ""],
              !.test_reason = reason,
              !.score = IF passed THEN 1 ELSE 0]

\* lines 53-63: nothing to confirm, or the image name is resolved
\* (get_swebench_docker_image_name returns or raises)
RtBegin(c) ==
    /\ pc[c] = "rt_begin"
    /\ IF NoChecks(frame[c].task)
          THEN /\ frame' = [frame EXCEPT ![c] =
                              Returned(@, FALSE, "no_fail_to_pass_tests")]
               /\ pc' = [pc EXCEPT ![c] = "return"]
               /\ UNCHANGED exc
          ELSE \/ /\ frame' = [frame EXCEPT ![c].hist.image = TRUE]
                  /\ pc' = [pc EXCEPT ![c] = "rt_write"]
                  /\ UNCHANGED exc
               \/ Raise(c, "KeyError")
    /\ UNCHANGED << docker, fs, started, cid >>
    /\ UNCHANGED tasksVars

\* lines 65-67: the patch file is created, then written; a failed write
\* leaves the `with` block before patch_file is assigned
RtWritePatch(c) ==
    /\ pc[c] = "rt_write"
    /\ \/ \E name \in FreshNames(PatchPrefix, fs) :
            /\ fs' = WriteFile(fs, name,
                        [owner |-> cid[c], data |-> frame[c].patch])
            /\ \/ /\ frame' = [frame EXCEPT ![c].patch_file = name,
                                            ![c].hist.wrote_patch = TRUE]
                  /\ pc' = [pc EXCEPT ![c] = "rt_docker"]
                  /\ UNCHANGED exc
               \/ Raise(c, "OSError")
       \/ /\ Raise(c, "OSError")
          /\ UNCHANGED fs
    /\ UNCHANGED << docker, started, cid >>
    /\ UNCHANGED tasksVars

\* what the container mounts at /tmp/solution.patch
Mounted(c) ==
    IF frame[c].patch_file \in DOMAIN fs THEN fs[frame[c].patch_file]
    ELSE NoContent

\* the container ran to its end: the script's exit status is that of its
\* last command, pytest, whatever became of the patch; `docker run` itself
\* exits 125 when it cannot start the container
RtCompleted(c, how, returncode) ==
    frame' = [frame EXCEPT
        ![c].rt = [passed |-> Passed(returncode),
                   reason |-> ReasonOf(Passed(returncode)), raised |-> ""],
        ![c].hist.backend = TRUE,
        ![c].hist.returncode = returncode,
        ![c].hist.applied = how,
        ![c].hist.tests_run =
            IF how = "not_started" THEN 0
            ELSE CappedTests(FailToPass(frame[c].task)),
        ![c].hist.mounted = Mounted(c)]

\* subprocess.run raised: TimeoutExpired and FileNotFoundError are handled,
\* anything else leaves _run_tests through its finally clause
RtFailed(c, e) ==
    frame' = [frame EXCEPT
        ![c].rt =
            IF e = "TimeoutExpired"
               THEN [passed |-> FALSE, reason |-> "test_timeout", raised |-> ""]
            ELSE IF e = "FileNotFoundError"
               THEN [passed |-> FALSE, reason |-> "docker_not_found",
                     raised |-> ""]
            ELSE [passed |-> FALSE, reason |-> "", raised |-> e],
        ![c].hist.backend = TRUE]

\* lines 75-109: subprocess.run(["docker", "run", ...], timeout=180)
RtDocker(c) ==
    /\ pc[c] = "rt_docker"
    /\ CASE docker = "not_installed" -> RtFailed(c, "FileNotFoundError")
         [] docker = "not_running" -> RtCompleted(c, "not_started", 125)
         [] OTHER ->
              \/ \E how \in {"git_apply", "patch_p1", "none"}, code \in {0, 1} :
                   RtCompleted(c, how, code)
              \/ RtCompleted(c, "not_started", 125)
              \/ \E e \in {"TimeoutExpired", "PermissionError"} : RtFailed(c, e)
    /\ pc' = [pc EXCEPT ![c] = "rt_finally"]
    /\ UNCHANGED << docker, fs, started, cid, exc >>
    /\ UNCHANGED tasksVars

\* lines 110-111: finally os.unlink(patch_file); then the return value goes
\* to lines 173-174, or the pending exception goes on
RtFinally(c) ==
    /\ pc[c] = "rt_finally"
    /\ IF frame[c].patch_file \in DOMAIN fs
          THEN /\ fs' = Unlink(fs, frame[c].patch_file)
               /\ IF frame[c].rt.raised # ""
                     THEN Raise(c, frame[c].rt.raised)
                     ELSE /\ frame' = [frame EXCEPT ![c] =
                                 Returned(@, @.rt.passed, @.rt.reason)]
                          /\ pc' = [pc EXCEPT ![c] = "return"]
                          /\ UNCHANGED exc
          ELSE /\ Raise(c, "FileNotFoundError")
               /\ UNCHANGED fs
    /\ UNCHANGED << docker, started, cid >>
    /\ UNCHANGED tasksVars

\* lines 186-192: the pair evaluate returns, 0 and 1 standing for 0.0 and 1.0
ReturnValue(f) ==
    << f.score,
       [ instance_id |-> f.task.instance_id, patch_chars |-> Len(f.patch),
         score |-> f.score, error |-> f.error_msg,
         test_failure_reason |-> f.test_reason ] >>

\* return score, {...}: the pair goes to the search engine, the locals are gone
Return(c) ==
    /\ pc[c] = "return"
    /\ pc' = [pc EXCEPT ![c] = "done"]
    /\ frame' = [frame EXCEPT ![c] = NoFrame]
    /\ UNCHANGED << docker, fs, started, cid, exc >>
    /\ UNCHANGED tasksVars

Next ==
    \E c \in Calls :
        \/ Call(c)
        \/ WriteSkillConfig(c)
        \/ MkTraj(c)
        \/ AgentConfig(c)
        \/ AgentRun(c)
        \/ Finally(c)
        \/ RtBegin(c)
        \/ RtWritePatch(c)
        \/ RtDocker(c)
        \/ RtFinally(c)
        \/ Return(c)

Spec == Init /\ [][Next]_vars

(***************************************************************************)
(* Properties of evaluate and _run_tests, under Spec.  A call at           *)
(* pc = "return" is about to return ReturnValue(frame[c]).                 *)
(***************************************************************************)
AtReturn(c) == pc[c] = "return"
InVerify(c) == pc[c] \in {"rt_begin", "rt_write", "rt_docker", "rt_finally"}
FilesOf(c, prefix) ==
    { n \in DOMAIN fs : n[1] = prefix /\ fs[n].owner = cid[c] }

\* C1: every evaluate call returns a (score, record) pair and never raises
\* to its caller, whatever step fails.
C1_NeverRaises == \A c \in Calls : pc[c] # "raised"

\* C2: a call whose agent steps yield no fix artifact (no submission, None,
\* "", whitespace only, or an exception) returns score 0.0 with reason
\* no_patch_submitted and never enters _run_tests; _run_tests is entered only
\* after the agent steps have completed or failed.
C2_NoPatchNoVerify ==
    \A c \in Calls :
        /\ (AtReturn(c) /\ Strip(frame[c].patch) = <<>>) =>
              /\ ReturnValue(frame[c])[1] = 0
              /\ ReturnValue(frame[c])[2].test_failure_reason
                    = "no_patch_submitted"
              /\ ~frame[c].hist.verify
              /\ ~frame[c].hist.image
              /\ ~frame[c].hist.wrote_patch
              /\ ~frame[c].hist.backend
        /\ frame[c].error_msg # "" => frame[c].patch = <<>>
        /\ (InVerify(c) \/ frame[c].hist.verify) =>
              /\ frame[c].hist.agent_done
              /\ Strip(frame[c].patch) # <<>>

\* a call returns after a whitespace-only submission
C2_Witness ==
    \E c \in Calls :
        /\ AtReturn(c)
        /\ frame[c].patch = BlankText
        /\ frame[c].test_reason = "no_patch_submitted"

\* C3: when an evaluate call has returned, its skill configuration file and
\* its trajectory file have been removed.
C3_TempFilesRemoved ==
    \A c \in Calls :
        pc[c] = "done" =>
            FilesOf(c, SkillPrefix) \cup FilesOf(c, TrajPrefix) = {}

\* C4 as claimed: for a task whose FAIL_TO_PASS list is empty or absent,
\* _run_tests returns (false, no_checks_defined) without resolving an image,
\* writing a patch file or invoking docker.
C4_NoChecksDefined ==
    \A c \in Calls :
        (AtReturn(c) /\ frame[c].hist.verify
            /\ FailToPass(frame[c].task) = 0) =>
              /\ frame[c].rt = [passed |-> FALSE, reason |-> "no_checks_defined",
                                raised |-> ""]
              /\ ~frame[c].hist.image
              /\ ~frame[c].hist.wrote_patch
              /\ ~frame[c].hist.backend

\* C4 as amended: for a task whose FAIL_TO_PASS list is empty or absent,
\* _run_tests returns (false, no_fail_to_pass_tests) immediately, without
\* resolving an image, writing a patch file or invoking docker.
C4_NoFailToPassTests ==
    \A c \in Calls :
        /\ (AtReturn(c) /\ frame[c].hist.verify
              /\ FailToPass(frame[c].task) = 0) =>
              /\ frame[c].rt = [passed |-> FALSE,
                                reason |-> "no_fail_to_pass_tests",
                                raised |-> ""]
              /\ ~frame[c].hist.image
              /\ ~frame[c].hist.wrote_patch
              /\ ~frame[c].hist.backend
              /\ FilesOf(c, PatchPrefix) = {}
        /\ pc[c] \in {"rt_write", "rt_docker", "rt_finally"} =>
              FailToPass(frame[c].task) > 0

\* _run_tests has returned for a task whose FAIL_TO_PASS list is present
\* and empty
C4_Witness ==
    \E c \in Calls :
        /\ AtReturn(c)
        /\ frame[c].hist.verify
        /\ frame[c].task.has_f2p
        /\ frame[c].task.n_f2p = 0
        /\ frame[c].test_reason = "no_fail_to_pass_tests"

\* C5: while the backend is unavailable (docker not installed, or installed
\* but not running), a call whose verification reaches the backend scores
\* 0.0 with reason docker_not_found, never tests_failed.
C5_BackendUnavailable ==
    \A c \in Calls :
        (AtReturn(c) /\ docker # "ok" /\ frame[c].hist.backend) =>
            /\ ReturnValue(frame[c])[1] = 0
            /\ ReturnValue(frame[c])[2].test_failure_reason = "docker_not_found"

\* C6: the returned score is 0.0 or 1.0, equals the record's score, and is
\* 1.0 exactly when the docker run exited with status zero, which is exactly
\* when the reason is tests_passed.
C6_ScoreIsExitStatus ==
    \A c \in Calls :
        AtReturn(c) =>
            LET rv == ReturnValue(frame[c])
                h == frame[c].hist
            IN  /\ rv[1] \in {0, 1}
                /\ rv[2].score = rv[1]
                /\ rv[1] = 1 <=> (h.backend /\ h.returncode = 0)
                /\ rv[1] = 1 <=> rv[2].test_failure_reason = "tests_passed"
                /\ rv[2].test_failure_reason \in
                      { "tests_passed", "tests_failed", "test_timeout",
                        "docker_not_found", "no_fail_to_pass_tests",
                        "no_patch_submitted" }

\* a call returns 1.0 after a docker run that exited with status zero, and
\* another call returns 0.0 after one that exited with status one
C6_Witness ==
    \E c, d \in Calls :
        /\ AtReturn(c) /\ frame[c].hist.returncode = 0 /\ frame[c].score = 1
        /\ AtReturn(d) /\ frame[d].hist.returncode = 1 /\ frame[d].score = 0

\* the steps at which a call holds a file it created and has not yet
\* unlinked (the trajectory file is never unlinked)
HoldsSkill(c) == pc[c] \in {"mk_traj", "agent_config", "agent_run", "finally"}
HoldsTraj(c) ==
    pc[c] \in {"agent_config", "agent_run", "finally", "rt_begin", "rt_write",
               "rt_docker", "rt_finally", "return"}
HoldsPatch(c) == pc[c] \in {"rt_docker", "rt_finally"}

\* C8: concurrent evaluate calls use their own skill file, trajectory file
\* and patch file: while a call holds a file, the file exists under a name
\* no other call holds, with the content the call wrote; the configuration a
\* call reads is its own, the patch its container mounts is its own, and no
\* step of a call fails because a file of its own has gone.
C8_Isolation ==
    \A c \in Calls :
        LET f == frame[c] IN
        /\ HoldsSkill(c) =>
              /\ f.skill_config_path \in DOMAIN fs
              /\ fs[f.skill_config_path] =
                    [owner |-> cid[c], data |-> <<f.candidate_skill>>]
        /\ HoldsTraj(c) =>
              /\ f.traj_tmp \in DOMAIN fs
              /\ fs[f.traj_tmp].owner = cid[c]
        /\ HoldsPatch(c) =>
              /\ f.patch_file \in DOMAIN fs
              /\ fs[f.patch_file] = [owner |-> cid[c], data |-> f.patch]
        /\ pc[c] = "agent_run" =>
              f.config = [owner |-> cid[c], data |-> <<f.candidate_skill>>]
        /\ f.hist.returncode # -1 =>
              f.hist.mounted = [owner |-> cid[c], data |-> f.patch]
        /\ ~f.hist.missing
        /\ exc[c] # "FileNotFoundError"
        /\ \A d \in Calls \ {c} :
              /\ HoldsSkill(c) /\ HoldsSkill(d) =>
                    f.skill_config_path # frame[d].skill_config_path
              /\ HoldsTraj(c) /\ HoldsTraj(d) =>
                    f.traj_tmp # frame[d].traj_tmp
              /\ HoldsPatch(c) /\ HoldsPatch(d) =>
                    f.patch_file # frame[d].patch_file

\* two calls are in their docker runs at the same time, each with its own
\* patch file
C8_Witness ==
    /\ pc[1] = "rt_finally"
    /\ pc[2] = "rt_finally"
    /\ frame[1].hist.returncode = 0
    /\ frame[2].hist.returncode = 1

\* a call whose _run_tests has ended, by returning or by raising
VerifyEnded(c) == pc[c] \in {"return", "done", "raised"}

\* C11: every _run_tests call that writes a temporary patch file has removed
\* it by the time the call ends, on every exit path (tests passed, tests
\* failed, timeout, docker not found, any other error raised while writing
\* the file or running the container); when no call is running, no patch
\* file remains.
C11_PatchFileRemoved ==
    /\ \A c \in Calls : VerifyEnded(c) => FilesOf(c, PatchPrefix) = {}
    /\ (\A c \in Calls : pc[c] \in {"idle", "done", "raised"}) =>
          { n \in DOMAIN fs : n[1] = PatchPrefix } = {}

\* C12: a call returns tests_passed (score 1.0) only when the patch was
\* applied inside the container, by git apply or by patch -p1, and the first
\* at most 10 FAIL_TO_PASS tests then ran with exit status zero; a patch
\* that applies under neither method never yields tests_passed.
C12_PassedOnlyIfApplied ==
    \A c \in Calls :
        LET h == frame[c].hist IN
        /\ (AtReturn(c) /\ frame[c].test_reason = "tests_passed") =>
              /\ ReturnValue(frame[c])[1] = 1
              /\ h.applied \in {"git_apply", "patch_p1"}
              /\ h.tests_run = CappedTests(FailToPass(frame[c].task))
              /\ h.tests_run <= TestCap
              /\ h.returncode = 0
        /\ (AtReturn(c) /\ h.backend /\ h.applied = "none") =>
              frame[c].test_reason # "tests_passed"

(***************************************************************************)
(* src/src/tasks.py: split_tasks.                                          *)
(*                                                                         *)
(* int(n * train) multiplies in IEEE double arithmetic.  A double is       *)
(* m * 2^-e with a 53-bit mantissa m, held in limbs of LimbBits bits, the  *)
(* least significant first; the product of an integer and a double is the  *)
(* exact product rounded to 53 significant bits, ties to even, and int()   *)
(* drops its fraction.                                                     *)
(***************************************************************************)
LimbBits == 10
LimbBase == 1024
MantissaBits == 53

\* the double 0.67 = 6034823500676465 * 2^-53
TrainFraction == [m |-> <<369, 655, 368, 655, 368, 5>>, e |-> 53]
\* the double 0.17 = 6124895493223875 * 2^-55
ValFraction == [m |-> <<451, 573, 450, 573, 450, 5>>, e |-> 55]

\* the limbs of n * m
RECURSIVE MulLimbs(_, _, _)
MulLimbs(n, m, carry) ==
    IF m = <<>>
       THEN IF carry = 0 THEN <<>>
            ELSE <<carry % LimbBase>> \o MulLimbs(n, <<>>, carry \div LimbBase)
       ELSE LET t == n * Head(m) + carry
            IN  <<t % LimbBase>> \o MulLimbs(n, Tail(m), t \div LimbBase)

\* the bits of a limb sequence, the least significant first
BitsOf(limbs) ==
    [i \in 1 .. LimbBits * Len(limbs) |->
        (limbs[((i - 1) \div LimbBits) + 1] \div 2 ^ ((i - 1) % LimbBits)) % 2]

\* the position of the highest 1, 0 for zero
BitLen(X) ==
    IF \E i \in 1 .. Len(X) : X[i] = 1
       THEN CHOOSE i \in 1 .. Len(X) :
                X[i] = 1 /\ \A j \in i + 1 .. Len(X) : X[j] = 0
       ELSE 0

\* the integer the bits above position e spell
RECURSIVE IntPart(_, _)
IntPart(X, e) ==
    IF Len(X) <= e THEN 0
    ELSE X[e + 1] + 2 * IntPart([i \in 1 .. Len(X) - 1 |-> X[i + 1]], e)

\* int(n * c) for an int n >= 0 and a double c: the exact product X * 2^-e
\* loses its lowest k bits to rounding, which carries into the integer part
\* when it rounds up and every kept bit of the fraction is 1
IntOfProduct(n, c) ==
    LET X == BitsOf(MulLimbs(n, c.m, 0))
        k == BitLen(X) - MantissaBits
        roundup ==
            /\ k >= 1
            /\ X[k] = 1
            /\ \/ \E i \in 1 .. k - 1 : X[i] = 1
               \/ X[k + 1] = 1
        carry == roundup /\ \A i \in k + 1 .. c.e : X[i] = 1
    IN  IntPart(X, c.e) + (IF carry THEN 1 ELSE 0)

\* a slice bound as Python clamps it
SliceIndex(i, len) ==
    IF i < 0 THEN (IF len + i < 0 THEN 0 ELSE len + i)
    ELSE IF i > len THEN len ELSE i

\* s[a:b]
PySlice(s, a, b) ==
    SubSeq(s, SliceIndex(a, Len(s)) + 1, SliceIndex(b, Len(s)))

\* a faulty variant of the split: the validation slice ends at n_val
SplitTasksValEndsAtNVal(tasks, train, val) ==
    LET n == Len(tasks)
        n_train == IntOfProduct(n, train)
        n_val == IntOfProduct(n, val)
    IN  << PySlice(tasks, 0, n_train),
           PySlice(tasks, n_train, n_val),
           PySlice(tasks, n_train + n_val, n) >>

\* split_tasks(tasks, train, val)
SplitTasks(tasks, train, val) ==
    LET n == Len(tasks)
        n_train == IntOfProduct(n, train)
        n_val == IntOfProduct(n, val)
    IN  << PySlice(tasks, 0, n_train),
           PySlice(tasks, n_train, n_train + n_val),
           PySlice(tasks, n_train + n_val, n) >>

\* a task list of every length up to MaxTasks, the tasks in dataset order
InitSplit ==
    /\ docker = "ok"
    /\ EvalIdle
    /\ \E n \in 0 .. MaxTasks : arg_tasks = [i \in 1 .. n |-> i]
    /\ split_out = << >>
    /\ dataset = << >>
    /\ PipeIdle

\* split_tasks(tasks) with the default fractions
CallSplitTasks ==
    /\ split_out = << >>
    /\ split_out' = SplitTasks(arg_tasks, TrainFraction, ValFraction)
    /\ UNCHANGED << evalVars, arg_tasks, pipeVars >>

NextSplit == CallSplitTasks

SpecSplit == InitSplit /\ [][NextSplit]_vars

Range(s) == { s[i] : i \in 1 .. Len(s) }

\* C9: split_tasks with the default fractions returns three contiguous
\* slices that do not overlap and whose concatenation is the task list, with
\* len(train) = floor(n * 0.67) and len(val) = floor(n * 0.17); 100 tasks
\* split 67 / 17 / 16, and fewer than 3 tasks leave some slice empty.
C9_SplitPartition ==
    split_out # << >> =>
        LET n == Len(arg_tasks)
            train == split_out[1]
            val == split_out[2]
            test == split_out[3]
        IN  /\ train \o val \o test = arg_tasks
            /\ Len(train) = (n * 67) \div 100
            /\ Len(val) = (n * 17) \div 100
            /\ train = SubSeq(arg_tasks, 1, Len(train))
            /\ val = SubSeq(arg_tasks, Len(train) + 1, Len(train) + Len(val))
            /\ test = SubSeq(arg_tasks, Len(train) + Len(val) + 1, n)
            /\ Range(train) \cap Range(val) = {}
            /\ Range(train) \cap Range(test) = {}
            /\ Range(val) \cap Range(test) = {}
            /\ n = 100 => << Len(train), Len(val), Len(test) >> = << 67, 17, 16 >>
            /\ n < 3 => \E part \in {train, val, test} : part = << >>

\* 100 tasks have been split 67 / 17 / 16
C9_Witness ==
    /\ Len(arg_tasks) = 100
    /\ split_out # << >>
    /\ Len(split_out[1]) = 67
    /\ Len(split_out[2]) = 17
    /\ Len(split_out[3]) = 16

(***************************************************************************)
(* src/src/tasks.py: load_tasks.  Text is a sequence of characters; a      *)
(* word that is never taken apart ("github.com", "SKILL.md") stands as one *)
(* character.                                                              *)
(***************************************************************************)
\* n: int = 300
DefaultN == 300

\* str.replace(old, new) for a one-character old
RECURSIVE Replace(_, _, _)
Replace(s, old, new) ==
    IF s = <<>> THEN <<>>
    ELSE (IF Head(s) = old THEN new ELSE <<Head(s)>>)
         \o Replace(Tail(s), old, new)

\* sub in s
Contains(s, sub) ==
    \E i \in 0 .. Len(s) - Len(sub) : SubSeq(s, i + 1, i + Len(sub)) = sub

\* slug = repo_name.replace("/", "__")
Slug(repo_name) == Replace(repo_name, "/", <<"_", "_">>)

\* [dict(t) for t in ds if slug in t["repo"]]
Matching(ds, repo_name) ==
    SelectSeq(ds, LAMBDA t : Contains(t.repo, Slug(repo_name)))

\* load_tasks(repo_name, n) over the dataset ds: a ValueError, or tasks[:n]
LoadTasks(ds, repo_name, n) ==
    LET tasks == Matching(ds, repo_name)
    IN  IF tasks = <<>>
           THEN [raised |-> "ValueError", value |-> <<>>]
           ELSE [raised |-> "", value |-> PySlice(tasks, 0, n)]

\* repo fields of the dataset, 'swesmith/owner__repo.commithash'
RepoR == <<"s", "/", "o", "_", "_", "r", ".", "1">>
RepoRx == <<"s", "/", "o", "_", "_", "r", "x", ".", "1">>
RepoQ == <<"s", "/", "p", "_", "_", "q", ".", "1">>
RepoFields == {RepoR, RepoRx, RepoQ}

\* repository names a caller gives
RepoNames ==
    { <<"o", "/", "r">>, <<"o", "/", "r", "x">>, <<"o", "/", "z">>, <<"q">> }

Datasets ==
    UNION { { [i \in 1 .. k |-> [instance_id |-> i, repo |-> f[i]]] :
                f \in [1 .. k -> RepoFields] } : k \in 0 .. MaxRecords }

Limits == (-1 .. MaxLimit) \cup {DefaultN}

(***************************************************************************)
(* src/main.py and src/src/pipeline.py.                                    *)
(***************************************************************************)
\* load_tasks(repo, n=300) of the `tasks` command
CliN == 300

\* the parameters of pipeline.run, and the keywords main.run calls it with
RunParams ==
    {"repo_url", "output_dir", "max_evals", "use_initial_skill", "agent_model"}
CliRunKwargs ==
    {"repo_url", "output_dir", "max_evals", "use_initial_skill", "agent_model",
     "skill_model", "base_url"}
\* a caller of pipeline.run that names parameters it has
ApiRunKwargs == {"repo_url", "use_initial_skill"}

\* the parameters of make_evaluator, and the keyword pipeline.run calls it with
MakeEvaluatorParams == {}
MakeEvaluatorKwargs == {"agent_model"}

\* a call binds when every keyword is a parameter; Python raises TypeError
\* otherwise
Binds(kwargs, params) == kwargs \subseteq params

\* str.rstrip("/")
RECURSIVE RStripSlash(_)
RStripSlash(s) ==
    IF s # <<>> /\ s[Len(s)] = "/"
       THEN RStripSlash(SubSeq(s, 1, Len(s) - 1)) ELSE s

\* s.split(sep)[-1]: what follows the last sep, all of s when there is none
AfterLast(s, sep) ==
    LET at == { i \in 0 .. Len(s) - Len(sep) :
                  SubSeq(s, i + 1, i + Len(sep)) = sep }
    IN  IF at = {} THEN s
        ELSE LET i == CHOOSE j \in at : \A k \in at : k <= j
             IN  SubSeq(s, i + Len(sep) + 1, Len(s))

\* s.split("/")
RECURSIVE SplitSlash(_)
SplitSlash(s) ==
    IF \E i \in 1 .. Len(s) : s[i] = "/"
       THEN LET i == CHOOSE j \in 1 .. Len(s) :
                        s[j] = "/" /\ \A k \in 1 .. j - 1 : s[k] # "/"
            IN  <<SubSeq(s, 1, i - 1)>> \o SplitSlash(SubSeq(s, i + 1, Len(s)))
       ELSE <<s>>

\* _extract_repo_name(repo_url): 'owner/repo', or an IndexError
ExtractRepoName(repo_url) ==
    LET url == RStripSlash(repo_url)
    IN  IF Contains(url, <<"github.com">>)
           THEN LET parts == SplitSlash(AfterLast(url, <<"github.com", "/">>))
                IN  IF Len(parts) < 2
                       THEN [raised |-> "IndexError", value |-> <<>>]
                       ELSE [raised |-> "",
                             value |-> parts[1] \o <<"/">> \o parts[2]]
           ELSE [raised |-> "", value |-> url]

\* save_skill: {output_dir}/{short_repo_name}/SKILL.md
SkillPath(repo_name, output_dir) ==
    LET parts == SplitSlash(repo_name)
    IN  <<output_dir, "/">> \o parts[Len(parts)] \o <<"/", "SKILL.md">>

RepoUrls ==
    { <<"https:", "/", "/", "github.com", "/", "o", "/", "r">>,
      <<"https:", "/", "/", "github.com", "/", "o", "/", "r", "/">>,
      <<"o", "/", "r", "x">>,
      <<"o", "/", "z">> }

InitTasks ==
    /\ docker = "ok"
    /\ EvalIdle
    /\ SplitIdle
    /\ dataset \in Datasets
    /\ PipeIdle

\* a caller applies load_tasks(repo_name, n)
CallLoadTasks ==
    /\ ppc = "idle"
    /\ \E repo \in RepoNames, n \in Limits :
         LET r == LoadTasks(dataset, repo, n)
         IN  outcome' = [NoOutcome EXCEPT !.call = "load_tasks", !.repo = repo,
                                          !.n = n, !.raised = r.raised,
                                          !.value = r.value]
    /\ ppc' = "returned"
    /\ UNCHANGED << evalVars, splitVars, dataset, pframe >>

\* main.tasks: load_tasks(repo, n=300); a ValueError is echoed and the
\* command exits with code 1; else the first `limit` tasks are listed
CliTasks ==
    /\ ppc = "idle"
    /\ \E repo \in RepoNames, limit \in Limits :
         LET r == LoadTasks(dataset, repo, CliN)
         IN  outcome' =
               [NoOutcome EXCEPT
                  !.call = "tasks", !.repo = repo, !.n = limit,
                  !.raised = r.raised, !.value = r.value,
                  !.exit_code = IF r.raised = "ValueError" THEN 1 ELSE 0,
                  !.shown = IF r.raised = "ValueError" THEN <<>>
                            ELSE PySlice(r.value, 0, limit)]
    /\ ppc' = "exited"
    /\ UNCHANGED << evalVars, splitVars, dataset, pframe >>

\* an exception leaves pipeline.run; under the CLI the process exits with 1
Abort(f, e) == [f EXCEPT !.error = e,
                         !.exit_code = IF f.via = "cli" THEN 1 ELSE -1]

\* pipeline.run is entered
Entered(via, url, use_initial_skill) ==
    [NoPFrame EXCEPT !.via = via, !.repo_url = url,
                     !.use_initial_skill = use_initial_skill]

\* main.run, lines 56-66: _run(repo_url=..., ..., skill_model=..., base_url=...)
CliRun ==
    /\ ppc = "idle"
    /\ \E url \in RepoUrls, no_initial_skill \in BOOLEAN :
         IF Binds(CliRunKwargs, RunParams)
            THEN /\ pframe' = Entered("cli", url, ~no_initial_skill)
                 /\ ppc' = "load"
            ELSE /\ pframe' = Abort(Entered("cli", url, ~no_initial_skill),
                                    "TypeError")
                 /\ ppc' = "aborted"
    /\ UNCHANGED << evalVars, splitVars, dataset, outcome >>

\* pipeline.run called with keywords it has
ApiRun ==
    /\ ppc = "idle"
    /\ Binds(ApiRunKwargs, RunParams)
    /\ \E url \in RepoUrls, use_initial_skill \in BOOLEAN :
         pframe' = Entered("api", url, use_initial_skill)
    /\ ppc' = "load"
    /\ UNCHANGED << evalVars, splitVars, dataset, outcome >>

\* pipeline.run, lines 41-47: the repository name, load_tasks, split_tasks
PipeLoad ==
    /\ ppc = "load"
    /\ LET name == ExtractRepoName(pframe.repo_url)
           r == LoadTasks(dataset, name.value, DefaultN)
           parts == SplitTasks(r.value, TrainFraction, ValFraction)
       IN  IF name.raised # ""
              THEN /\ pframe' = Abort(pframe, name.raised)
                   /\ ppc' = "aborted"
           ELSE IF r.raised # ""
              THEN /\ pframe' = Abort([pframe EXCEPT !.repo_name = name.value],
                                      "ValueError")
                   /\ ppc' = "aborted"
           ELSE /\ pframe' = [pframe EXCEPT !.repo_name = name.value,
                                            !.tasks = r.value,
                                            !.train = parts[1],
                                            !.val = parts[2],
                                            !.test = parts[3]]
                /\ ppc' = "seed"
    /\ UNCHANGED << evalVars, splitVars, dataset, outcome >>

\* lines 49-56: generate_initial_skill(repo_url) returns the seed or raises
PipeSeed ==
    /\ ppc = "seed"
    /\ IF pframe.use_initial_skill
          THEN \/ /\ pframe' = [pframe EXCEPT !.seed_skill = "seed"]
                  /\ ppc' = "optimize"
               \/ /\ pframe' = Abort(pframe, "RuntimeError")
                  /\ ppc' = "aborted"
          ELSE /\ ppc' = "optimize"
               /\ UNCHANGED pframe
    /\ UNCHANGED << evalVars, splitVars, dataset, outcome >>

\* lines 58-84: make_evaluator(agent_model=agent_model), optimize_anything,
\* save_skill
PipeOptimize ==
    /\ ppc = "optimize"
    /\ IF Binds(MakeEvaluatorKwargs, MakeEvaluatorParams)
          THEN /\ pframe' = [pframe EXCEPT
                               !.out_path = SkillPath(pframe.repo_name,
                                                      ".claude/skills"),
                               !.exit_code = IF pframe.via = "cli" THEN 0 ELSE -1]
               /\ ppc' = "saved"
          ELSE /\ pframe' = Abort(pframe, "TypeError")
               /\ ppc' = "aborted"
    /\ UNCHANGED << evalVars, splitVars, dataset, outcome >>

NextTasks ==
    \/ CallLoadTasks
    \/ CliTasks
    \/ CliRun
    \/ ApiRun
    \/ PipeLoad
    \/ PipeSeed
    \/ PipeOptimize

SpecTasks == InitTasks /\ [][NextTasks]_vars

(***************************************************************************)
(* Claims about the CLI, the pipeline and load_tasks (SpecTasks).           *)
(***************************************************************************)
IsPrefix(s, t) == Len(s) <= Len(t) /\ SubSeq(t, 1, Len(s)) = s

\* C7: a pipeline run started from the CLI `run` command is aborted before
\* the skill is persisted only by a dataset lookup that finds zero tasks
\* (ValueError of load_tasks) or by a failed seed generation (RuntimeError
\* of generate_initial_skill); a run that met neither has written
\* {output_dir}/{short_repo_name}/SKILL.md when it ends.
C7_OnlyLookupOrSeedAborts ==
    /\ (pframe.via = "cli" /\ ppc = "aborted")
          => pframe.error \in {"ValueError", "RuntimeError"}
    /\ (pframe.via = "cli" /\ ppc = "saved")
          => pframe.out_path =
               SkillPath(pframe.repo_name, ".claude/skills")

=============================================================================
